---- MODULE Spec2Model ----
(***************************************************************************)
(* Verification model of plex-unwrapped: the admin router                  *)
(* (backend/src/routes/admin.routes.ts), the relational schema it writes   *)
(* to, and the aggregation engine it calls.                                *)
(*                                                                         *)
(* Spec      - the generation orchestrator: POST /generate and the         *)
(*             background job generateWrappedStats, several runs at once.  *)
(* SpecEmail - the two email routes and the background job sendEmails,     *)
(*             over a store that a finished generation left behind.        *)
(* SpecHttp  - the admin router's layer stack, POST /login and the         *)
(*             frontend's ApiClient.                                       *)
(* SpecEngine - the aggregation engine, invoked on bounded watch-event     *)
(*             lists and on their permutations.                            *)
(***************************************************************************)
EXTENDS Integers, Sequences, FiniteSets, TLC

VARIABLES
    gens,        \* wrapped_generations rows, by id
    job,         \* generateWrappedStats invocations, by generation id
    stats,       \* user_wrapped_stats rows
    tokens,      \* access_tokens: the stats ids that have a token
    nextStatsId, \* user_wrapped_stats.id SERIAL
    userEmail,   \* users.email is set, by user id
    testMode,    \* process.env.TEST_MODE === 'true'
    emailLogs,   \* email_logs rows, in id order
    mailQueue,   \* the stats rows the sendEmails jobs have still to handle
    smtpCalls,   \* transporter.sendMail calls made so far
    mailReply,   \* the last response of an email route
    adminUser,   \* process.env.ADMIN_USERNAME, "" when unset
    adminPass,   \* process.env.ADMIN_PASSWORD, "" when unset
    clientToken, \* ApiClient.token of the admin frontend
    request,     \* the last request the admin router received
    response,    \* what the router made of it
    events,      \* the watch-event list handed to the aggregation engine
    firstFed,    \* the list as the first invocation received it
    yearStats,   \* the UserYearStats of the last invocation
    userResult,  \* what generateWrappedStats made of that invocation
    wrapped,     \* the UserYearStats a wrapped page is made from
    storedRow,   \* its user_wrapped_stats row
    served,      \* the stats the wrapped page received
    shown,       \* what the wrapped page renders
    browser,     \* window, URL 'lang' parameter, localStorage, navigator.language
    locale,      \* the last return of determineLocale and what it saw
    userLang,    \* users.preferred_language, by user id
    langReply,   \* the last PATCH /users/:id/language and its response
    translations, \* I18nService.translations: the table loaded per locale
    translated,  \* the last call of I18nService.translate and its return
    proc         \* the backend process: server, shutdown callbacks, timers

genVars == <<gens, job, stats, tokens, nextStatsId>>

mailVars == <<userEmail, testMode, emailLogs, mailQueue, smtpCalls, mailReply>>

httpVars == <<adminUser, adminPass, clientToken, request, response>>

engineVars == <<events, firstFed, yearStats, userResult>>

pageVars == <<wrapped, storedRow, served, shown, browser, locale>>

serviceVars == <<userLang, langReply, translations, translated, proc>>

vars == <<gens, job, stats, tokens, nextStatsId,
          userEmail, testMode, emailLogs, mailQueue, smtpCalls, mailReply,
          adminUser, adminPass, clientToken, request, response,
          events, firstFed, yearStats, userResult,
          wrapped, storedRow, served, shown, browser, locale,
          userLang, langReply, translations, translated, proc>>

----------------------------------------------------------------------------
(* Bounds of the model *)

NumUsers == 2          \* rows of the users table
MaxGenerations == 2    \* POST /generate requests
MaxBatch == 2          \* length of a request's userIds list
MaxFetchAttempts == 2  \* history fetch attempts per user
MaxEmailLogs == 3      \* email_logs rows
MaxEvents == 3         \* watch events of one user-year
MaxSignals == 2        \* shutdown signals and uncaught errors of one process
StreakDays == 15       \* calendar days a user-year's watch-days are drawn from

(* Program constants *)

MAX_WORKERS == 4
\* the worker counts an operator may configure
WorkerCounts == 1..MAX_WORKERS
TARGET_YEAR == 2025

----------------------------------------------------------------------------
(* The store *)

UserIds == 1..NumUsers
GenIds == 1..MaxGenerations
\* ids a request may name: every user and one id with no row
RequestIds == 1..(NumUsers + 1)
Years == {TARGET_YEAR - 1, TARGET_YEAR}

NoIds == <<0>>   \* a request body without userIds

\* the userIds a request carries: none, or MaxBatch ids, repeats and ids of
\* no user included
UserIdLists == {NoIds} \cup [1..MaxBatch -> RequestIds]

\* UserModel.findById
FindById(id) == IF id \in UserIds THEN id ELSE 0

\* UserModel.findAll: every user, ordered
FindAll == [i \in 1..NumUsers |-> i]

RECURSIVE FilterNonNull(_)
FilterNonNull(s) ==
    IF s = <<>> THEN <<>>
    ELSE IF Head(s) = 0 THEN FilterNonNull(Tail(s))
         ELSE <<Head(s)>> \o FilterNonNull(Tail(s))

\* generateWrappedStats: the users to process
UsersToProcess(ids) ==
    IF ids = NoIds THEN FindAll
    ELSE FilterNonNull([i \in 1..Len(ids) |-> FindById(ids[i])])

NoGen ==
    [status |-> "none", year |-> 0, total_users |-> 0, processed_users |-> 0,
     successful_users |-> 0, failed_users |-> 0]

\* WrappedGenerationModel.create: the row's defaults
NewGeneration(y) ==
    [status |-> "pending", year |-> y, total_users |-> 0, processed_users |-> 0,
     successful_users |-> 0, failed_users |-> 0]

NoJob ==
    [pc |-> "idle", ids |-> NoIds, users |-> <<>>, idx |-> 0, successful |-> 0,
     failed |-> 0, attempts |-> 0, savedId |-> 0, error |-> "none",
     inflight |-> {}]

----------------------------------------------------------------------------
(* The aggregation engine: (watch events, year) -> UserYearStats.  Times   *)
(* are minutes since Jan 1 00:00 of the target year.                       *)

MinutesPerDay == 1440
YearMinutes == 525600
BingeGapMinutes == 240
TopCap == 10

NoStats == [computed |-> FALSE]

\* the loop body of generateWrappedStats has not run for the user
NoResult == [counted |-> "none", error |-> "none", row |-> NoStats]

EngineIdle ==
    /\ events = <<>>
    /\ firstFed = <<>>
    /\ yearStats = NoStats
    /\ userResult = NoResult

\* 4.1: events of no watched duration or outside the target year are dropped
Qualifies(e) == e.dur > 0 /\ e.t >= 0 /\ e.t < YearMinutes

\* every record is kept
DedupeNothing(s, seen) == s

\* 6: de-duplicate by (ratingKey, startedAt), the first record of a key stays
RECURSIVE Dedupe(_, _)
Dedupe(s, seen) ==
    IF s = <<>> THEN <<>>
    ELSE LET k == <<Head(s).rk, Head(s).t>>
         IN IF k \in seen THEN Dedupe(Tail(s), seen)
            ELSE <<Head(s)>> \o Dedupe(Tail(s), seen \cup {k})

Normalize(evts) == Dedupe(SelectSeq(evts, Qualifies), {})

RECURSIVE SumMinutes(_)
SumMinutes(s) == IF s = <<>> THEN 0 ELSE Head(s).dur + SumMinutes(Tail(s))

Range(s) == {s[i] : i \in 1..Len(s)}

\* 4.3: the calendar days with at least one qualifying event
ActiveDays(s) == {e.t \div MinutesPerDay : e \in Range(s)}

RECURSIVE RunFrom(_, _)
RunFrom(d, days) == IF d \in days THEN 1 + RunFrom(d + 1, days) ELSE 0

Max(S) == CHOOSE x \in S : \A y \in S : y <= x

\* the active days counted, whatever the gaps between them
LongestStreakAcrossGaps(days) == Cardinality(days)

\* 4.3: the longest run of consecutive active days
LongestStreak(days) == IF days = {} THEN 0 ELSE Max({RunFrom(d, days) : d \in days})

\* chronological order, equal start times by rating key
RECURSIVE Chronological(_)
Chronological(S) ==
    IF S = {} THEN <<>>
    ELSE LET e == CHOOSE x \in S : \A y \in S :
                      x.t < y.t \/ (x.t = y.t /\ x.rk <= y.rk)
         IN <<e>> \o Chronological(S \ {e})

\* a session that ends when the gap reaches the threshold
ContinuesSessionBelowGap(prev, t) == t - prev < BingeGapMinutes

\* 4.3: the next event starts no more than the gap threshold after the
\* previous one
ContinuesSession(prev, t) == t - prev <= BingeGapMinutes

\* 4.3: the minutes of every viewing session
RECURSIVE SessionMinutes(_, _, _)
SessionMinutes(s, prev, acc) ==
    IF s = <<>> THEN {acc}
    ELSE IF ContinuesSession(prev, Head(s).t)
         THEN SessionMinutes(Tail(s), Head(s).t, acc + Head(s).dur)
         ELSE {acc} \cup SessionMinutes(Tail(s), Head(s).t, Head(s).dur)

LongestBinge(s) ==
    IF s = <<>> THEN 0
    ELSE LET c == Chronological(Range(s))
         IN Max(SessionMinutes(Tail(c), Head(c).t, Head(c).dur))

\* 4.2: one ranking group per rating key
Group(s, k) ==
    LET mine == SelectSeq(s, LAMBDA e : e.rk = k)
    IN [key |-> k, plays |-> Len(mine), minutes |-> SumMinutes(mine),
        earliest |-> CHOOSE t \in {e.t : e \in Range(mine)} :
                        \A e \in Range(mine) : t <= e.t]

Groups(s) == {Group(s, k) : k \in {e.rk : e \in Range(s)}}

\* groups equal in plays and minutes ranked by key
RanksBeforeIgnoringEarliest(a, b) ==
    \/ a.plays > b.plays
    \/ a.plays = b.plays /\ a.minutes > b.minutes
    \/ a.plays = b.plays /\ a.minutes = b.minutes /\ a.key <= b.key

\* 4.2: plays descending, then minutes descending, then earliest-observed
\* ascending; groups equal in all three by key
RanksBefore(a, b) ==
    \/ a.plays > b.plays
    \/ a.plays = b.plays /\ a.minutes > b.minutes
    \/ a.plays = b.plays /\ a.minutes = b.minutes /\ a.earliest < b.earliest
    \/ a.plays = b.plays /\ a.minutes = b.minutes /\ a.earliest = b.earliest
         /\ a.key <= b.key

RECURSIVE Ranked(_)
Ranked(G) ==
    IF G = {} THEN <<>>
    ELSE LET g == CHOOSE x \in G : \A y \in G : RanksBefore(x, y)
         IN <<g>> \o Ranked(G \ {g})

TopN(G) == SubSeq(Ranked(G), 1, IF Cardinality(G) < TopCap THEN Cardinality(G) ELSE TopCap)

\* the first watch read off the head of the list as it was handed in
FirstWatchOfInput(s) == IF s = <<>> THEN 0 ELSE Head(s).rk

\* 4.3: the chronologically earliest event, the larger rating key on a tie
FirstWatch(s) ==
    IF s = <<>> THEN 0
    ELSE (CHOOSE x \in Range(s) : \A y \in Range(s) :
              x.t < y.t \/ (x.t = y.t /\ x.rk >= y.rk)).rk

\* 4.3: the chronologically latest event, the larger rating key on a tie
LastWatch(s) ==
    IF s = <<>> THEN 0
    ELSE (CHOOSE x \in Range(s) : \A y \in Range(s) :
              x.t > y.t \/ (x.t = y.t /\ x.rk >= y.rk)).rk

\* 4.4: the distinct titles played at least twice
RewatchCount(G) == Cardinality({g \in G : g.plays >= 2})

MaxFunFacts == 6

\* 4.4: the rule table, in priority order
FunFactRules == <<"streak", "binge", "rewatch">>

\* a rule table whose thresholds an all-zero year meets
FiresAtZero(rule, c) ==
    CASE rule = "streak" -> c.longestStreak >= 0
      [] rule = "binge" -> c.longestBinge >= 0
      [] rule = "rewatch" -> c.rewatchCount >= 0

\* 4.4: each rule either fires or does not
Fires(rule, c) ==
    CASE rule = "streak" -> c.longestStreak >= 2
      [] rule = "binge" -> c.longestBinge > 0
      [] rule = "rewatch" -> c.rewatchCount >= 1

\* 4.4: the facts of the rules that fire, in table order, at most MaxFunFacts
FunFacts(c) ==
    LET fired == SelectSeq(FunFactRules, LAMBDA r : Fires(r, c))
    IN SubSeq(fired, 1, IF Len(fired) < MaxFunFacts THEN Len(fired) ELSE MaxFunFacts)

\* 4.5: the assembled UserYearStats
Engine(evts) ==
    LET s == Normalize(evts)
        c == [longestStreak |-> LongestStreak(ActiveDays(s)),
              longestBinge |-> LongestBinge(s),
              rewatchCount |-> RewatchCount(Groups(s))]
    IN [computed |-> TRUE,
        totalPlays |-> Len(s),
        totalMinutes |-> SumMinutes(s),
        daysActive |-> Cardinality(ActiveDays(s)),
        longestStreak |-> c.longestStreak,
        longestBinge |-> c.longestBinge,
        rewatchCount |-> c.rewatchCount,
        topMovies |-> TopN(Groups(s)),
        firstWatch |-> FirstWatch(s),
        lastWatch |-> LastWatch(s),
        funFacts |-> FunFacts(c)]

RatingKeys == 1..2
StartTimes == {0 - 1, 0, BingeGapMinutes}
Durations == {0, 10, 20}

WatchEvents == [rk : RatingKeys, t : StartTimes, dur : Durations]

EventLists == UNION {[1..n -> WatchEvents] : n \in 0..MaxEvents}

\* generateWrappedStats runs the engine on the user's events; an engine
\* error lands in the user's catch block
Invoke ==
    /\ yearStats' = Engine(events)
    /\ userResult' = IF yearStats'.computed THEN NoResult
                     ELSE [counted |-> "failed", error |-> "calc", row |-> NoStats]
    /\ firstFed' = IF yearStats = NoStats THEN events ELSE firstFed
    /\ UNCHANGED events
    /\ UNCHANGED <<genVars, mailVars, httpVars, pageVars, serviceVars>>

\* generateWrappedStats stores the result and counts the user
StoreResult ==
    /\ yearStats.computed
    /\ userResult.counted = "none"
    /\ \E saved \in BOOLEAN :
         userResult' = IF saved
                       THEN [counted |-> "successful", error |-> "none", row |-> yearStats]
                       ELSE [counted |-> "failed", error |-> "db", row |-> NoStats]
    /\ UNCHANGED <<events, firstFed, yearStats>>
    /\ UNCHANGED <<genVars, mailVars, httpVars, pageVars, serviceVars>>

\* the history source hands the same events over in another order
Reorder(i) ==
    /\ i < Len(events)
    /\ events[i] # events[i + 1]
    /\ events' = [events EXCEPT ![i] = events[i + 1], ![i + 1] = events[i]]
    /\ UNCHANGED <<firstFed, yearStats, userResult>>
    /\ UNCHANGED <<genVars, mailVars, httpVars, pageVars, serviceVars>>

\* after a run, the history source returns one event a second time, the
\* copy anywhere in the list
FeedTwice(i, j) ==
    /\ userResult.counted # "none"
    /\ Len(events) < MaxEvents
    /\ i \in 1..Len(events)
    /\ j \in 0..Len(events)
    /\ events' = SubSeq(events, 1, j) \o <<events[i]>> \o SubSeq(events, j + 1, Len(events))
    /\ UNCHANGED <<firstFed, yearStats, userResult>>
    /\ UNCHANGED <<genVars, mailVars, httpVars, pageVars, serviceVars>>

----------------------------------------------------------------------------
(* The stats row and the wrapped page *)

NoWrapped == [computed |-> FALSE]
NoRow == [saved |-> FALSE]
NoServed == [received |-> FALSE]
NoPage == [rendered |-> FALSE]

\* the locales of i18n and the default one
Locales == {"en", "es", "fr", "de", "sl"}
DefaultLocale == "en"

\* null: no 'lang' parameter, no localStorage item, no locale found
Null == "<null>"

NoLocale == [called |-> FALSE]

\* a browser on the page without parameter and preference
PlainBrowser ==
    [hasWindow |-> TRUE, lang |-> Null, preferredLanguage |-> Null, language |-> <<"en", "US">>]

PageIdle ==
    /\ wrapped = NoWrapped
    /\ storedRow = NoRow
    /\ served = NoServed
    /\ shown = NoPage
    /\ browser = PlainBrowser
    /\ locale = NoLocale

\* any non-empty 'lang' parameter taken as the locale
GetLocaleFromURLUnchecked(b) == IF b.lang # Null /\ b.lang # "" THEN b.lang ELSE Null

GetLocaleFromURL(b) ==
    IF b.lang # Null /\ b.lang # "" /\ b.lang \in Locales THEN b.lang ELSE Null

GetLocaleFromStorage(b) ==
    IF ~b.hasWindow THEN Null
    ELSE IF b.preferredLanguage # Null /\ b.preferredLanguage # ""
              /\ b.preferredLanguage \in Locales
         THEN b.preferredLanguage ELSE Null

\* navigator.language.split('-')[0]
GetLocaleFromBrowser(b) ==
    IF ~b.hasWindow THEN DefaultLocale
    ELSE IF Head(b.language) \in Locales THEN Head(b.language) ELSE DefaultLocale

\* a || b of values that are null or non-empty strings
OrElse(a, b) == IF a # Null /\ a # "" THEN a ELSE b

DetermineLocale(b) ==
    OrElse(GetLocaleFromURL(b),
           OrElse(GetLocaleFromStorage(b), OrElse(GetLocaleFromBrowser(b), DefaultLocale)))

LangParams == {Null, "", "es", "de", "xx", "ES"}
StoredLanguages == {Null, "", "fr", "de", "xx"}
NavigatorLanguages == {<<"sl", "SI">>, <<"de">>, <<"pt", "BR">>, <<"EN", "us">>}

Browsers ==
    [hasWindow : BOOLEAN, lang : LangParams, preferredLanguage : StoredLanguages,
     language : NavigatorLanguages]

\* a caller asks for the locale
CallDetermineLocale ==
    /\ locale' = [called |-> TRUE, value |-> DetermineLocale(browser), saw |-> browser]
    /\ UNCHANGED <<wrapped, storedRow, served, shown, browser>>
    /\ UNCHANGED <<genVars, mailVars, httpVars, engineVars, serviceVars>>

\* setLocale
SetLocale(l) ==
    /\ browser' = IF browser.hasWindow
                  THEN [browser EXCEPT !.preferredLanguage = l] ELSE browser
    /\ UNCHANGED <<wrapped, storedRow, served, shown, locale>>
    /\ UNCHANGED <<genVars, mailVars, httpVars, engineVars, serviceVars>>

\* LanguageSwitcher.handleLocaleChange
HandleLocaleChange(l) ==
    /\ browser.hasWindow
    /\ browser' = [browser EXCEPT !.preferredLanguage = l, !.lang = l]
    /\ UNCHANGED <<wrapped, storedRow, served, shown, locale>>
    /\ UNCHANGED <<genVars, mailVars, httpVars, engineVars, serviceVars>>

\* the metadata source supplied no library size
NoLibrarySize == 0

\* 4.4: unique titles over library size, "unavailable" without a library size
LibraryPercentage(uniqueTitles, librarySize) ==
    IF librarySize = NoLibrarySize
    THEN [known |-> FALSE, value |-> 0]
    ELSE [known |-> TRUE, value |-> (uniqueTitles * 100) \div librarySize]

\* percentage_of_library_watched DECIMAL(5,2) DEFAULT 0
SqlNull == [null |-> TRUE, value |-> 0]
SqlDefault == [null |-> FALSE, value |-> 0]

\* the column after the INSERT: a known percentage as it is; an unavailable
\* one as NULL when the statement names the column, as the DEFAULT when not
ColumnWritten(pct, named) ==
    IF pct.known THEN [null |-> FALSE, value |-> pct.value]
    ELSE IF named THEN SqlNull ELSE SqlDefault

\* Math.round(a / b * 100) of non-negative numbers; NaN and Infinity when b is 0
NotFinite == 0 - 1
JsRoundPercent(a, b) == IF b = 0 THEN NotFinite ELSE (200 * a + b) \div (2 * b)

\* the fun facts of the engine, by rank in its rule table
EngineFacts(k) == [i \in 1..k |-> [id |-> "engine", n |-> i]]

\* generatedFacts of the wrapped page before the slice
GeneratedFacts(st) ==
    st.funFacts
    \o (IF st.mostActiveDayOfWeek # "" THEN <<[id |-> "dayOfWeek", n |-> 0]>> ELSE <<>>)
    \o (IF st.topShowEpisodes > 20
        THEN <<[id |-> "crushedEpisodes", n |-> st.topShowEpisodes]>> ELSE <<>>)
    \o (IF st.qualityStats.directPlay > st.qualityStats.transcode
        THEN <<[id |-> "originalQuality",
                n |-> JsRoundPercent(st.qualityStats.directPlay, st.totalPlays)]>>
        ELSE <<>>)
    \o <<[id |-> "preference", n |-> IF st.totalMovies > st.totalTvEpisodes THEN 1 ELSE 0]>>
    \o (IF st.daysActive < 200
        THEN <<[id |-> "watchedPercentage", n |-> JsRoundPercent(st.daysActive, 365)]>>
        ELSE <<>>)
    \o (IF st.topDevices # <<>> THEN <<[id |-> "favoriteDevice", n |-> 0]>> ELSE <<>>)

\* the whole array
SliceNothing(a, n) == a

\* Array.prototype.slice(0, n)
Slice(a, n) == SubSeq(a, 1, IF Len(a) < n THEN Len(a) ELSE n)

\* the share of each of the first three devices
DeviceShares(st) ==
    LET d == Slice(st.topDevices, 3)
    IN [i \in 1..Len(d) |-> JsRoundPercent(d[i], st.totalWatchTimeMinutes)]

\* 4.4: the quality mix, each bucket a rounded percentage of the minutes
QualityMixes ==
    {[directPlay |-> 100, directStream |-> 0, transcode |-> 0],
     [directPlay |-> 0, directStream |-> 0, transcode |-> 100],
     [directPlay |-> 33, directStream |-> 33, transcode |-> 33],
     [directPlay |-> 50, directStream |-> 0, transcode |-> 50]}

\* the minutes of the top devices of a year of 60 minutes
DeviceMinutes == {<<60>>, <<40, 20>>, <<30, 20, 10>>}

\* the valid UserYearStats the page is checked on: an all-zero year and
\* years of 60 minutes
WrappedStats ==
    {[computed |-> TRUE, totalPlays |-> 0, totalWatchTimeMinutes |-> 0,
      qualityStats |-> [directPlay |-> 0, directStream |-> 0, transcode |-> 0],
      topDevices |-> <<>>, funFacts |-> <<>>, mostActiveDayOfWeek |-> "",
      topShowEpisodes |-> 0, totalMovies |-> 0, totalTvEpisodes |-> 0,
      daysActive |-> 0,
      percentageOfLibraryWatched |-> LibraryPercentage(0, l)] : l \in {NoLibrarySize, 4}}
    \cup
    {[computed |-> TRUE, totalPlays |-> p, totalWatchTimeMinutes |-> 60,
      qualityStats |-> q, topDevices |-> d, funFacts |-> EngineFacts(k),
      mostActiveDayOfWeek |-> w, topShowEpisodes |-> e, totalMovies |-> m,
      totalTvEpisodes |-> p - m, daysActive |-> a,
      percentageOfLibraryWatched |-> LibraryPercentage(u, l)] :
        p \in {2, 3}, q \in QualityMixes, d \in DeviceMinutes, k \in 0..MaxFunFacts,
        w \in {"", "Monday"}, e \in {0, 20, 21}, m \in {0, 2},
        a \in {1, 199, 200}, u \in {1, 2}, l \in {NoLibrarySize, 4}}

\* UserWrappedStatsModel.create: the INSERT into user_wrapped_stats
SaveRow ==
    /\ wrapped.computed
    /\ ~storedRow.saved
    /\ \E named \in BOOLEAN :
         storedRow' = [saved |-> TRUE,
                       percentage_of_library_watched |->
                           ColumnWritten(wrapped.percentageOfLibraryWatched, named),
                       stats |-> wrapped]
    /\ UNCHANGED <<wrapped, served, shown, browser, locale>>
    /\ UNCHANGED <<genVars, mailVars, httpVars, engineVars, serviceVars>>

\* the wrapped page receives the row: WrappedData.stats
ServeWrapped ==
    /\ storedRow.saved
    /\ ~served.received
    /\ served' = [received |-> TRUE,
                  stats |-> [storedRow.stats EXCEPT
                               !.percentageOfLibraryWatched =
                                   storedRow.percentage_of_library_watched]]
    /\ UNCHANGED <<wrapped, storedRow, shown, browser, locale>>
    /\ UNCHANGED <<genVars, mailVars, httpVars, engineVars, serviceVars>>

\* the wrapped page renders the devices slide and the fun facts slide
RenderPage ==
    /\ served.received
    /\ ~shown.rendered
    /\ shown' = [rendered |-> TRUE,
                 devices |-> DeviceShares(served.stats),
                 facts |-> Slice(GeneratedFacts(served.stats), 6)]
    /\ UNCHANGED <<wrapped, storedRow, served, browser, locale>>
    /\ UNCHANGED <<genVars, mailVars, httpVars, engineVars, serviceVars>>

----------------------------------------------------------------------------
(* I18nService *)

\* JavaScript values: a string is a sequence of pieces, each plain text or a
\* {name} placeholder; an object has own properties
JsValue(kind, text, fields) == [kind |-> kind, text |-> text, fields |-> fields]
Undefined == JsValue("undefined", <<>>, <<>>)
JsNull == JsValue("null", <<>>, <<>>)
JsNumber == JsValue("number", <<>>, <<>>)
JsFunction == JsValue("function", <<>>, <<>>)
JsString(text) == JsValue("string", text, <<>>)
JsObject(fields) == JsValue("object", <<>>, fields)

Text(s) == [placeholder |-> FALSE, s |-> s]
Placeholder(name) == [placeholder |-> TRUE, s |-> name]

\* the properties every object inherits from Object.prototype
ObjectPrototype == {"constructor", "toString", "hasOwnProperty"}

TypeOf(v) == IF v.kind = "null" THEN "object" ELSE v.kind

Truthy(v) ==
    /\ v.kind \notin {"undefined", "null"}
    /\ v.kind = "string" => v.text # <<>>

\* k in value, for an object
In(k, v) == k \in DOMAIN v.fields \/ k \in ObjectPrototype

\* value[k], for an object
Get(v, k) == IF k \in DOMAIN v.fields THEN v.fields[k] ELSE JsFunction

\* locales/<locale>.json as an operator may have written it: a title, and
\* the email texts with their placeholders; the Slovenian file has no title
LocaleTable(l) ==
    LET email == [subject |-> JsString(<<Text(l), Placeholder("year"),
                                         Text(" Wrapped, "), Placeholder("name")>>),
                  footer |-> JsString(<<Text(l), Placeholder("constructor")>>),
                  count |-> JsNumber]
    IN IF l = "sl" THEN JsObject([email |-> JsObject(email)])
       ELSE JsObject([title |-> JsString(<<Text(l), Text("Wrapped")>>),
                      email |-> JsObject(email)])

\* what loadTranslations leaves in the map for a locale: nothing when the
\* file is absent or unreadable, else what JSON.parse made of it
LoadedTables(l) == {Undefined, JsNull, LocaleTable(l)}

\* the locales whose file may be absent or hold null
MissingLocales == {"en", "fr", "sl"}

\* Map.get
MapGet(l) == IF l \in Locales THEN translations[l] ELSE Undefined

Keys == {"title", "email", "email.subject", "email.footer", "email.count",
         "email.missing", "title.length", "constructor", ""}

\* key.split('.')
Split(key) ==
    CASE key = "title" -> <<"title">>
      [] key = "email" -> <<"email">>
      [] key = "email.subject" -> <<"email", "subject">>
      [] key = "email.footer" -> <<"email", "footer">>
      [] key = "email.count" -> <<"email", "count">>
      [] key = "email.missing" -> <<"email", "missing">>
      [] key = "title.length" -> <<"title", "length">>
      [] key = "constructor" -> <<"constructor">>
      [] key = "" -> <<"">>

\* the locale argument: absent, a supported locale, or a code of none
LocaleArgs == Locales \cup {Null, "xx"}

\* parameter values and String(value)
ParamValue(kind, s) == [kind |-> kind, s |-> s]
ParamUndefined == ParamValue("undefined", "undefined")
ParamInherited == ParamValue("function", "function Object() { [native code] }")
StringOf(v) == v.s

\* the params argument: absent, or an object with own properties
NoParams == [given |-> FALSE, own |-> <<>>]
Params(own) == [given |-> TRUE, own |-> own]
ParamSets ==
    {NoParams,
     Params(<<>>),
     Params([year |-> ParamValue("number", "2025")]),
     Params([year |-> ParamValue("number", "2025"),
             name |-> ParamValue("string", "Ana")]),
     Params([year |-> ParamValue("number", "2025"), name |-> ParamUndefined])}

\* params[key]: an own property, else one inherited from Object.prototype
ParamLookup(params, name) ==
    IF name \in DOMAIN params.own THEN params.own[name]
    ELSE IF name \in ObjectPrototype THEN ParamInherited
    ELSE ParamUndefined

\* interpolate: every {name} whose params[name] is not undefined is replaced
Interpolate(template, params) ==
    [i \in DOMAIN template |->
        IF template[i].placeholder
           /\ ParamLookup(params, template[i].s) # ParamUndefined
        THEN Text(StringOf(ParamLookup(params, template[i].s)))
        ELSE template[i]]

\* the for loop over the key's segments
RECURSIVE Navigate(_, _)
Navigate(value, keys) ==
    IF keys = <<>> THEN [found |-> TRUE, value |-> value]
    ELSE IF Truthy(value) /\ TypeOf(value) = "object" /\ In(Head(keys), value)
         THEN Navigate(Get(value, Head(keys)), Tail(keys))
         ELSE [found |-> FALSE, value |-> Undefined]

KeyItself(key) == JsString(<<Text(key)>>)

\* translate(key, locale = defaultLocale, params)
TranslateValue(key, localeArg, params) ==
    LET l == IF localeArg = Null THEN DefaultLocale ELSE localeArg
        table == IF Truthy(MapGet(l)) THEN MapGet(l) ELSE MapGet(DefaultLocale)
        at == Navigate(table, Split(key))
    IN IF ~Truthy(table) THEN KeyItself(key)
       ELSE IF ~at.found THEN KeyItself(key)
       ELSE IF TypeOf(at.value) # "string" THEN KeyItself(key)
       ELSE IF params.given THEN JsString(Interpolate(at.value.text, params))
       ELSE at.value

NotTranslated == [called |-> FALSE]

Translate(key, localeArg, params) ==
    /\ translated' = [called |-> TRUE, key |-> key, locale |-> localeArg,
                      params |-> params,
                      result |-> TranslateValue(key, localeArg, params)]
    /\ UNCHANGED <<userLang, langReply, translations, proc>>
    /\ UNCHANGED <<genVars, mailVars, httpVars, engineVars, pageVars>>

\* users.preferred_language VARCHAR(10) DEFAULT 'en'
NoLangReply == [status |-> 0]

\* the process after app.listen: the server listens, the database and Redis
\* connections are open, nothing has asked for a shutdown
Listening ==
    [running |-> TRUE, exitCode |-> -1, cause |-> "none",
     server |-> "listening", db |-> "open", redis |-> "open",
     callbacks |-> <<>>, timers |-> 0, elapsed |-> 0, signal |-> "none"]

ServiceIdle ==
    /\ userLang = [u \in UserIds |-> "en"]
    /\ langReply = NoLangReply
    /\ translations = [l \in Locales |-> LocaleTable(l)]
    /\ translated = NotTranslated
    /\ proc = Listening

----------------------------------------------------------------------------
(* The admin router *)

NoRequest ==
    [method |-> "", path |-> <<>>, jwt |-> "none", limited |-> FALSE,
     username |-> "", password |-> ""]

NoResponse == [handler |-> "none", status |-> 0, token |-> FALSE]

\* no request has been made and the server is configured with credentials
HttpIdle ==
    /\ adminUser = ""
    /\ adminPass = "secret"
    /\ clientToken = "none"
    /\ request = NoRequest
    /\ response = NoResponse

ParamSegments == {":id", ":userId", ":year", ":generationId"}

Route(m, p, h) == [kind |-> "route", method |-> m, path |-> p, handler |-> h]

Use(k) == [kind |-> k, method |-> "", path |-> <<>>, handler |-> ""]

Routes ==
    << Route("GET", <<"dashboard">>, "dashboard"),
       Route("POST", <<"users", "sync">>, "usersSync"),
       Route("GET", <<"users">>, "users"),
       Route("GET", <<"users", ":id">>, "user"),
       Route("PATCH", <<"users", ":id", "language">>, "userLanguage"),
       Route("POST", <<"users", ":id", "send-email">>, "userSendEmail"),
       Route("GET", <<"preview", ":userId", ":year">>, "preview"),
       Route("POST", <<"generate">>, "generate"),
       Route("GET", <<"generations">>, "generations"),
       Route("GET", <<"generations", ":id">>, "generation"),
       Route("POST", <<"emails", "send">>, "emailsSend"),
       Route("GET", <<"emails">>, "emails"),
       Route("GET", <<"emails", ":generationId">>, "emailsOfGeneration"),
       Route("GET", <<"logs", "email">>, "logsEmail"),
       Route("GET", <<"logs", "application">>, "logsApplication"),
       Route("GET", <<"logs", "files">>, "logsFiles") >>

\* the layers in registration order: the login route, the two router.use
\* middlewares, then every other route
RouterStackAuthLast ==
    <<Route("POST", <<"login">>, "login")>> \o Routes \o <<Use("auth"), Use("limit")>>

RouterStack ==
    <<Route("POST", <<"login">>, "login"), Use("auth"), Use("limit")>> \o Routes

\* Express path matching: a :param segment matches any segment
Matches(pattern, path) ==
    /\ Len(pattern) = Len(path)
    /\ \A i \in 1..Len(pattern) : pattern[i] \in ParamSegments \/ pattern[i] = path[i]

\* authenticateToken calls next() for a valid JWT only
AuthAccepts(jwt) == jwt = "valid"

\* POST /login without the username comparison
LoginHandlerPasswordOnly(u, p) ==
    IF u = "" \/ p = "" THEN [handler |-> "login", status |-> 400, token |-> FALSE]
    ELSE IF adminPass = "" THEN [handler |-> "login", status |-> 500, token |-> FALSE]
    ELSE IF p # adminPass THEN [handler |-> "login", status |-> 401, token |-> FALSE]
    ELSE [handler |-> "login", status |-> 200, token |-> TRUE]

\* POST /login
LoginHandler(u, p) ==
    LET adminUsername == IF adminUser = "" THEN "admin" ELSE adminUser
    IN IF u = "" \/ p = "" THEN [handler |-> "login", status |-> 400, token |-> FALSE]
       ELSE IF adminPass = "" THEN [handler |-> "login", status |-> 500, token |-> FALSE]
       ELSE IF u # adminUsername THEN [handler |-> "login", status |-> 401, token |-> FALSE]
       ELSE IF p # adminPass THEN [handler |-> "login", status |-> 401, token |-> FALSE]
       ELSE [handler |-> "login", status |-> 200, token |-> TRUE]

\* the router hands the request from layer to layer
RECURSIVE Dispatch(_, _)
Dispatch(layers, req) ==
    IF layers = <<>> THEN [handler |-> "none", status |-> 404, token |-> FALSE]
    ELSE LET l == Head(layers)
         IN IF l.kind = "auth"
            THEN IF AuthAccepts(req.jwt) THEN Dispatch(Tail(layers), req)
                 ELSE [handler |-> "none", status |-> 401, token |-> FALSE]
            ELSE IF l.kind = "limit"
            THEN IF req.limited
                 THEN [handler |-> "none", status |-> 429, token |-> FALSE]
                 ELSE Dispatch(Tail(layers), req)
            ELSE IF l.method = req.method /\ Matches(l.path, req.path)
            THEN IF l.handler = "login"
                 THEN IF req.limited
                      THEN [handler |-> "none", status |-> 429, token |-> FALSE]
                      ELSE LoginHandler(req.username, req.password)
                 ELSE [handler |-> l.handler, status |-> 200, token |-> FALSE]
            ELSE Dispatch(Tail(layers), req)

Methods == {"GET", "POST", "PATCH"}

RequestPaths ==
    {<<"login">>, <<"dashboard">>, <<"users">>, <<"users", "sync">>, <<"users", "1">>,
     <<"users", "1", "language">>, <<"users", "1", "send-email">>,
     <<"preview", "1", "2025">>, <<"generate">>, <<"generations">>,
     <<"generations", "1">>, <<"emails">>, <<"emails", "send">>, <<"emails", "1">>,
     <<"logs", "email">>, <<"logs", "application">>, <<"logs", "files">>, <<"nope">>}

Usernames == {"", "admin", "root", "eve"}
Passwords == {"", "secret", "guess"}

\* any client's request to /api/admin
HttpRequest(req) ==
    /\ request' = req
    /\ response' = Dispatch(RouterStack, req)
    /\ UNCHANGED <<adminUser, adminPass, clientToken>>
    /\ UNCHANGED <<genVars, mailVars, engineVars, pageVars, serviceVars>>

\* ApiClient.login: the token is kept only when the response is ok
ClientLogin(u, p, limited) ==
    LET req == [method |-> "POST", path |-> <<"login">>, jwt |-> clientToken,
                limited |-> limited, username |-> u, password |-> p]
        res == Dispatch(RouterStack, req)
    IN /\ request' = req
       /\ response' = res
       /\ clientToken' = IF res.status = 200 /\ res.token THEN "valid" ELSE clientToken
       /\ UNCHANGED <<adminUser, adminPass>>
       /\ UNCHANGED <<genVars, mailVars, engineVars, pageVars, serviceVars>>

\* ApiClient.request: the stored token goes into the Authorization header
ClientCall(m, path) ==
    /\ request' = [method |-> m, path |-> path, jwt |-> clientToken,
                   limited |-> FALSE, username |-> "", password |-> ""]
    /\ response' = Dispatch(RouterStack, request')
    /\ UNCHANGED <<adminUser, adminPass, clientToken>>
    /\ UNCHANGED <<genVars, mailVars, engineVars, pageVars, serviceVars>>

\* ApiClient.logout
ClientLogout ==
    /\ clientToken # "none"
    /\ clientToken' = "none"
    /\ UNCHANGED <<adminUser, adminPass, request, response>>
    /\ UNCHANGED <<genVars, mailVars, engineVars, pageVars, serviceVars>>

----------------------------------------------------------------------------
(* generateWrappedStats, one step per await *)

\* WrappedGenerationModel.update(id, {status: 'processing', started_at})
ProcessingUpdateSkipped(row) == row

ProcessingUpdate(row) == [row EXCEPT !.status = "processing"]

\* WrappedGenerationModel.update(id, {total_users})
TotalUpdate(row, n) == [row EXCEPT !.total_users = n]

\* WrappedGenerationModel.update(id, {status: 'completed', successful_users, failed_users})
CompletedUpdate(row, s, f) ==
    [row EXCEPT !.status = "completed", !.successful_users = s, !.failed_users = f]

\* WrappedGenerationModel.update(id, {status: 'failed', error_log})
FailedUpdate(row) == [row EXCEPT !.status = "failed"]

\* WrappedGenerationModel.incrementProcessed(id, success)
IncrementProcessed(row, success) ==
    IF success
    THEN [row EXCEPT !.processed_users = @ + 1, !.successful_users = @ + 1]
    ELSE [row EXCEPT !.processed_users = @ + 1, !.failed_users = @ + 1]

\* UNIQUE(user_id, year): the rows a new (user_id, year) row collides with
StatsConflictUnchecked(rows, u, y) == {}

StatsConflict(rows, u, y) == {x \in rows : x.user_id = u /\ x.year = y}

\* the history fetch is tried again after a transient failure while n, the
\* failures so far for this user, is below the attempt limit
RetryAllowedNever(n) == FALSE

RetryAllowed(n) == n < MaxFetchAttempts

\* the for-of loop awaits the user's body: once it settles, that user is no
\* longer in flight
AfterAwaitUnsettled(S, i) == S

AfterAwait(S, i) == S \ {i}

\* the statement after the loop body: the next user, or the final update
NextUser(j) ==
    IF j.idx < Len(j.users)
    THEN [j EXCEPT !.idx = @ + 1, !.pc = "calc", !.attempts = 0, !.savedId = 0,
                   !.error = "none",
                   !.inflight = AfterAwait(@, j.idx) \cup {j.idx + 1}]
    ELSE [j EXCEPT !.pc = "complete", !.attempts = 0, !.savedId = 0,
                   !.error = "none", !.inflight = AfterAwait(@, j.idx)]

\* the inner catch: failed++, then incrementProcessed(id, false)
InnerCatch(j, e) == [j EXCEPT !.failed = @ + 1, !.pc = "incFail", !.error = e]

\* the promise settles and the invocation's locals are gone
Settled(how) == [NoJob EXCEPT !.pc = how]

\* POST /generate
PostGenerate(y, ids) ==
    /\ \E g \in GenIds :
        /\ gens[g].status = "none"
        /\ \A h \in GenIds : h < g => gens[h].status # "none"
        /\ gens' = [gens EXCEPT ![g] = NewGeneration(IF y = 0 THEN TARGET_YEAR ELSE y)]
        /\ job' = [job EXCEPT ![g] = [NoJob EXCEPT !.pc = "start", !.ids = ids]]
    /\ UNCHANGED <<stats, tokens, nextStatsId>>
    /\ UNCHANGED <<mailVars, httpVars, engineVars, pageVars, serviceVars>>

MarkProcessing(g) ==
    /\ job[g].pc = "start"
    /\ \E ok \in BOOLEAN :
        IF ok
        THEN /\ gens' = [gens EXCEPT ![g] = ProcessingUpdate(@)]
             /\ job' = [job EXCEPT ![g].pc = "users"]
        ELSE /\ job' = [job EXCEPT ![g].pc = "catch"]
             /\ UNCHANGED gens
    /\ UNCHANGED <<stats, tokens, nextStatsId>>
    /\ UNCHANGED <<mailVars, httpVars, engineVars, pageVars, serviceVars>>

GetUsers(g) ==
    /\ job[g].pc = "users"
    /\ \E ok \in BOOLEAN :
        IF ok
        THEN job' = [job EXCEPT ![g].pc = "total", ![g].ids = NoIds,
                                ![g].users = UsersToProcess(job[g].ids)]
        ELSE job' = [job EXCEPT ![g].pc = "catch"]
    /\ UNCHANGED <<gens, stats, tokens, nextStatsId>>
    /\ UNCHANGED <<mailVars, httpVars, engineVars, pageVars, serviceVars>>

SetTotal(g) ==
    /\ job[g].pc = "total"
    /\ \E ok \in BOOLEAN :
        IF ok
        THEN /\ gens' = [gens EXCEPT ![g] = TotalUpdate(@, Len(job[g].users))]
             /\ job' = [job EXCEPT ![g] = NextUser(@)]
        ELSE /\ job' = [job EXCEPT ![g].pc = "catch"]
             /\ UNCHANGED gens
    /\ UNCHANGED <<stats, tokens, nextStatsId>>
    /\ UNCHANGED <<mailVars, httpVars, engineVars, pageVars, serviceVars>>

\* calculator.calculateUserStats(user.plex_user_id, year)
Calculate(g) ==
    /\ job[g].pc = "calc"
    /\ \E r \in {"ok", "transient", "error"} :
        \/ /\ r = "ok"
           /\ job' = [job EXCEPT ![g].pc = "save", ![g].attempts = 0]
        \/ /\ r = "transient"
           /\ RetryAllowed(job[g].attempts + 1)
           /\ job' = [job EXCEPT ![g].attempts = @ + 1]
        \/ /\ r = "transient"
           /\ ~RetryAllowed(job[g].attempts + 1)
           /\ job' = [job EXCEPT ![g] = InnerCatch([@ EXCEPT !.attempts = @ + 1], "fetch")]
        \/ /\ r = "error"
           /\ job' = [job EXCEPT ![g] = InnerCatch(@, "calc")]
    /\ UNCHANGED <<gens, stats, tokens, nextStatsId>>
    /\ UNCHANGED <<mailVars, httpVars, engineVars, pageVars, serviceVars>>

\* UserWrappedStatsModel.create({user_id, generation_id, year, stats})
SaveStats(g) ==
    /\ job[g].pc = "save"
    /\ LET u == job[g].users[job[g].idx]
           y == gens[g].year
           hit == StatsConflict(stats, u, y)
       IN \/ /\ hit = {}
             /\ stats' = stats \cup
                  {[id |-> nextStatsId, user_id |-> u, generation_id |-> g, year |-> y]}
             /\ nextStatsId' = nextStatsId + 1
             /\ job' = [job EXCEPT ![g].pc = "token", ![g].savedId = nextStatsId]
          \/ /\ hit # {}
             /\ \E x \in hit :
                 /\ stats' = (stats \ {x}) \cup {[x EXCEPT !.generation_id = g]}
                 /\ job' = [job EXCEPT ![g].pc = "token", ![g].savedId = x.id]
             /\ UNCHANGED nextStatsId
          \/ /\ hit # {}
             /\ job' = [job EXCEPT ![g] = InnerCatch(@, "conflict")]
             /\ UNCHANGED <<stats, nextStatsId>>
          \/ /\ job' = [job EXCEPT ![g] = InnerCatch(@, "db")]
             /\ UNCHANGED <<stats, nextStatsId>>
    /\ UNCHANGED <<gens, tokens>>
    /\ UNCHANGED <<mailVars, httpVars, engineVars, pageVars, serviceVars>>

\* AccessTokenModel.create({user_wrapped_stats_id, ...}); successful++
CreateToken(g) ==
    /\ job[g].pc = "token"
    /\ \E ok \in BOOLEAN :
        IF ok
        THEN /\ tokens' = tokens \cup {job[g].savedId}
             /\ job' = [job EXCEPT ![g].pc = "incOk", ![g].successful = @ + 1]
        ELSE /\ job' = [job EXCEPT ![g] = InnerCatch(@, "db")]
             /\ UNCHANGED tokens
    /\ UNCHANGED <<gens, stats, nextStatsId>>
    /\ UNCHANGED <<mailVars, httpVars, engineVars, pageVars, serviceVars>>

\* incrementProcessed(generationId, true), still inside the try block
CountSuccess(g) ==
    /\ job[g].pc = "incOk"
    /\ \E ok \in BOOLEAN :
        IF ok
        THEN /\ gens' = [gens EXCEPT ![g] = IncrementProcessed(@, TRUE)]
             /\ job' = [job EXCEPT ![g] = NextUser(@)]
        ELSE /\ job' = [job EXCEPT ![g] = InnerCatch(@, "db")]
             /\ UNCHANGED gens
    /\ UNCHANGED <<stats, tokens, nextStatsId>>
    /\ UNCHANGED <<mailVars, httpVars, engineVars, pageVars, serviceVars>>

\* incrementProcessed(generationId, false), inside the catch block
CountFailure(g) ==
    /\ job[g].pc = "incFail"
    /\ \E ok \in BOOLEAN :
        IF ok
        THEN /\ gens' = [gens EXCEPT ![g] = IncrementProcessed(@, FALSE)]
             /\ job' = [job EXCEPT ![g] = NextUser(@)]
        ELSE /\ job' = [job EXCEPT ![g].pc = "catch", ![g].error = "db"]
             /\ UNCHANGED gens
    /\ UNCHANGED <<stats, tokens, nextStatsId>>
    /\ UNCHANGED <<mailVars, httpVars, engineVars, pageVars, serviceVars>>

\* Mark as completed
MarkCompleted(g) ==
    /\ job[g].pc = "complete"
    /\ \E ok \in BOOLEAN :
        IF ok
        THEN /\ gens' = [gens EXCEPT ![g] =
                            CompletedUpdate(@, job[g].successful, job[g].failed)]
             /\ job' = [job EXCEPT ![g] = Settled("done")]
        ELSE /\ job' = [job EXCEPT ![g].pc = "catch", ![g].error = "db"]
             /\ UNCHANGED gens
    /\ UNCHANGED <<stats, tokens, nextStatsId>>
    /\ UNCHANGED <<mailVars, httpVars, engineVars, pageVars, serviceVars>>

\* the outer catch: update(id, {status: 'failed'}); when that throws too the
\* promise rejects and POST /generate's .catch logs it
MarkFailed(g) ==
    /\ job[g].pc = "catch"
    /\ \E ok \in BOOLEAN :
        IF ok
        THEN /\ gens' = [gens EXCEPT ![g] = FailedUpdate(@)]
             /\ job' = [job EXCEPT ![g] = Settled("done")]
        ELSE /\ job' = [job EXCEPT ![g] = Settled("rejected")]
             /\ UNCHANGED gens
    /\ UNCHANGED <<stats, tokens, nextStatsId>>
    /\ UNCHANGED <<mailVars, httpVars, engineVars, pageVars, serviceVars>>

\* the bodies of POST /generate: no year (0) with any userIds, or last year
\* with no userIds
RequestBodies ==
    {[year |-> 0, userIds |-> ids] : ids \in UserIdLists}
        \cup {[year |-> TARGET_YEAR - 1, userIds |-> NoIds]}

Init ==
    /\ gens = [g \in GenIds |-> NoGen]
    /\ job = [g \in GenIds |-> NoJob]
    /\ stats = {}
    /\ tokens = {}
    /\ nextStatsId = 1
    /\ userEmail = [u \in UserIds |-> TRUE]
    /\ testMode = FALSE
    /\ emailLogs = <<>>
    /\ mailQueue = <<>>
    /\ smtpCalls = 0
    /\ mailReply = "none"
    /\ ServiceIdle
    /\ HttpIdle
    /\ EngineIdle
    /\ PageIdle

Next ==
    \/ \E body \in RequestBodies : PostGenerate(body.year, body.userIds)
    \/ \E g \in GenIds : MarkProcessing(g)
    \/ \E g \in GenIds : GetUsers(g)
    \/ \E g \in GenIds : SetTotal(g)
    \/ \E g \in GenIds : Calculate(g)
    \/ \E g \in GenIds : SaveStats(g)
    \/ \E g \in GenIds : CreateToken(g)
    \/ \E g \in GenIds : CountSuccess(g)
    \/ \E g \in GenIds : CountFailure(g)
    \/ \E g \in GenIds : MarkCompleted(g)
    \/ \E g \in GenIds : MarkFailed(g)

Spec == Init /\ [][Next]_vars

----------------------------------------------------------------------------
(* The email routes and sendEmails *)

\* POST /emails/send: testMode of the body when it has one, else TEST_MODE
IsTestMode(tm) == IF tm # "absent" THEN tm = "true" ELSE testMode

RECURSIVE SortById(_)
SortById(rows) ==
    IF rows = {} THEN <<>>
    ELSE LET r == CHOOSE x \in rows : \A z \in rows : x.id <= z.id
         IN <<r>> \o SortById(rows \ {r})

\* UserWrappedStatsModel.findByGeneration, then the userIds filter
StatsToMail(genId, ids) ==
    SortById({r \in stats : /\ r.generation_id = genId
                            /\ (ids = <<>> \/ \E i \in 1..Len(ids) : ids[i] = r.user_id)})

\* EmailLogModel.create: a row with the default status
NewEmailLog(u, genId) == [user_id |-> u, generation_id |-> genId, status |-> "pending"]

\* EmailLogModel.markSent / markFailed on the newest row
MarkLog(logs, st) == [logs EXCEPT ![Len(logs)].status = st]

\* POST /emails/send
PostEmailsSend(genId, ids, tm) ==
    /\ \/ /\ IsTestMode(tm)
          /\ mailReply' = "test_mode"
          /\ UNCHANGED mailQueue
       \/ /\ ~IsTestMode(tm)
          /\ gens[genId].status = "none"
          /\ mailReply' = "404"
          /\ UNCHANGED mailQueue
       \/ /\ ~IsTestMode(tm)
          /\ gens[genId].status # "none"
          /\ Len(emailLogs) + Len(mailQueue) + Len(StatsToMail(genId, ids)) <= MaxEmailLogs
          /\ mailQueue' = mailQueue \o StatsToMail(genId, ids)
          /\ mailReply' = "started"
    /\ UNCHANGED <<userEmail, testMode, emailLogs, smtpCalls>>
    /\ UNCHANGED <<genVars, httpVars, engineVars, pageVars, serviceVars>>

\* sendEmails: one pass of the loop body
SendNext ==
    /\ mailQueue # <<>>
    /\ LET s == Head(mailQueue)
           u == FindById(s.user_id)
       IN \/ /\ (u = 0 \/ ~userEmail[s.user_id] \/ s.id \notin tokens)
             /\ UNCHANGED <<emailLogs, smtpCalls>>
          \/ /\ u # 0 /\ userEmail[u] /\ s.id \in tokens
             /\ \E r \in {"create_throws", "sent", "smtp_throws", "mark_throws"} :
                 IF r = "create_throws"
                 THEN UNCHANGED <<emailLogs, smtpCalls>>
                 ELSE /\ smtpCalls' = smtpCalls + 1
                      /\ emailLogs' =
                           IF r = "sent"
                           THEN MarkLog(Append(emailLogs, NewEmailLog(u, s.generation_id)), "sent")
                           ELSE Append(emailLogs, NewEmailLog(u, s.generation_id))
    /\ mailQueue' = Tail(mailQueue)
    /\ UNCHANGED <<userEmail, testMode, mailReply>>
    /\ UNCHANGED <<genVars, httpVars, engineVars, pageVars, serviceVars>>

\* POST /users/:id/send-email
PostUserSendEmail(id) ==
    /\ Len(emailLogs) + Len(mailQueue) < MaxEmailLogs
    /\ LET u == FindById(id)
           found == {r \in stats : r.user_id = id /\ r.year = TARGET_YEAR}
       IN \/ /\ u = 0
             /\ mailReply' = "404"
             /\ UNCHANGED <<tokens, emailLogs, smtpCalls>>
          \/ /\ u # 0 /\ ~userEmail[u]
             /\ mailReply' = "400"
             /\ UNCHANGED <<tokens, emailLogs, smtpCalls>>
          \/ /\ u # 0 /\ userEmail[u] /\ found = {}
             /\ mailReply' = "404"
             /\ UNCHANGED <<tokens, emailLogs, smtpCalls>>
          \/ /\ u # 0 /\ userEmail[u]
             /\ \E s \in found :
                 \E r \in {"token_throws", "create_throws", "sent", "failed", "pending"} :
                    /\ tokens' = IF r = "token_throws" THEN tokens ELSE tokens \cup {s.id}
                    /\ IF r \in {"token_throws", "create_throws"}
                       THEN /\ mailReply' = "500"
                            /\ UNCHANGED <<emailLogs, smtpCalls>>
                       ELSE /\ smtpCalls' = smtpCalls + 1
                            /\ emailLogs' = MarkLog(Append(emailLogs, NewEmailLog(u, 0)), r)
                            /\ mailReply' = IF r = "sent" THEN "200" ELSE "500"
    /\ UNCHANGED <<gens, job, stats, nextStatsId, userEmail, testMode, mailQueue>>
    /\ UNCHANGED <<httpVars, engineVars, pageVars, serviceVars>>

\* the store after one generation of every user for TARGET_YEAR, the users in
\* T with a token
StoreAfterGeneration(T) ==
    /\ gens = [g \in GenIds |->
                 IF g = 1
                 THEN [status |-> "completed", year |-> TARGET_YEAR,
                       total_users |-> NumUsers, processed_users |-> NumUsers,
                       successful_users |-> Cardinality(T),
                       failed_users |-> NumUsers - Cardinality(T)]
                 ELSE NoGen]
    /\ job = [g \in GenIds |-> IF g = 1 THEN Settled("done") ELSE NoJob]
    /\ stats = {[id |-> u, user_id |-> u, generation_id |-> 1, year |-> TARGET_YEAR] :
                  u \in UserIds}
    /\ tokens = T
    /\ nextStatsId = NumUsers + 1

InitEmail ==
    /\ \E T \in SUBSET UserIds : StoreAfterGeneration(T)
    /\ userEmail \in [UserIds -> BOOLEAN]
    /\ testMode \in BOOLEAN
    /\ emailLogs = <<>>
    /\ mailQueue = <<>>
    /\ smtpCalls = 0
    /\ mailReply = "none"
    /\ ServiceIdle
    /\ HttpIdle
    /\ EngineIdle
    /\ PageIdle

NextEmail ==
    \/ \E g \in GenIds : \E ids \in {<<>>} \cup {<<u>> : u \in RequestIds} :
         \E tm \in {"absent", "true", "false"} : PostEmailsSend(g, ids, tm)
    \/ SendNext
    \/ \E id \in RequestIds : PostUserSendEmail(id)

SpecEmail == InitEmail /\ [][NextEmail]_vars

InitHttp ==
    /\ gens = [g \in GenIds |-> NoGen]
    /\ job = [g \in GenIds |-> NoJob]
    /\ stats = {}
    /\ tokens = {}
    /\ nextStatsId = 1
    /\ userEmail = [u \in UserIds |-> TRUE]
    /\ testMode = FALSE
    /\ emailLogs = <<>>
    /\ mailQueue = <<>>
    /\ smtpCalls = 0
    /\ mailReply = "none"
    /\ ServiceIdle
    /\ adminUser \in {"", "root"}
    /\ adminPass \in {"", "secret"}
    /\ clientToken = "none"
    /\ request = NoRequest
    /\ response = NoResponse
    /\ EngineIdle
    /\ PageIdle

NextHttp ==
    \/ \E m \in Methods : \E path \in RequestPaths :
         \E jwt \in {"none", "invalid", "valid"} : \E limited \in BOOLEAN :
           \E u \in Usernames : \E p \in Passwords :
             /\ (path # <<"login">> => u = "" /\ p = "")
             /\ HttpRequest([method |-> m, path |-> path, jwt |-> jwt,
                             limited |-> limited, username |-> u, password |-> p])
    \/ \E u \in Usernames : \E p \in Passwords : \E limited \in BOOLEAN :
         ClientLogin(u, p, limited)
    \/ \E m \in Methods : \E path \in RequestPaths : ClientCall(m, path)
    \/ ClientLogout

SpecHttp == InitHttp /\ [][NextHttp]_vars

InitEngine ==
    /\ gens = [g \in GenIds |-> NoGen]
    /\ job = [g \in GenIds |-> NoJob]
    /\ stats = {}
    /\ tokens = {}
    /\ nextStatsId = 1
    /\ userEmail = [u \in UserIds |-> TRUE]
    /\ testMode = FALSE
    /\ emailLogs = <<>>
    /\ mailQueue = <<>>
    /\ smtpCalls = 0
    /\ mailReply = "none"
    /\ ServiceIdle
    /\ HttpIdle
    /\ events \in EventLists
    /\ firstFed = <<>>
    /\ yearStats = NoStats
    /\ userResult = NoResult
    /\ PageIdle

NextEngine ==
    \/ Invoke
    \/ StoreResult
    \/ \E i \in 1..MaxEvents : Reorder(i)

SpecEngine == InitEngine /\ [][NextEngine]_vars

\* one event on each watch-day, all at the same time of day
DayEvents(D, minute) ==
    Chronological({[rk |-> 1, t |-> d * MinutesPerDay + minute, dur |-> 10] : d \in D})

InitStreak ==
    /\ gens = [g \in GenIds |-> NoGen]
    /\ job = [g \in GenIds |-> NoJob]
    /\ stats = {}
    /\ tokens = {}
    /\ nextStatsId = 1
    /\ userEmail = [u \in UserIds |-> TRUE]
    /\ testMode = FALSE
    /\ emailLogs = <<>>
    /\ mailQueue = <<>>
    /\ smtpCalls = 0
    /\ mailReply = "none"
    /\ ServiceIdle
    /\ HttpIdle
    /\ \E D \in SUBSET (0..(StreakDays - 1)) :
         \E minute \in {0, MinutesPerDay - 1} : events = DayEvents(D, minute)
    /\ firstFed = <<>>
    /\ yearStats = NoStats
    /\ userResult = NoResult
    /\ PageIdle

NextStreak ==
    \/ Invoke
    \/ StoreResult

SpecStreak == InitStreak /\ [][NextStreak]_vars

\* start times 3h59, 4h and 4h01 apart
SessionTimes == {0, 239, 240, 241, 481, 722}

RECURSIVE Reverse(_)
Reverse(s) == IF s = <<>> THEN <<>> ELSE Append(Reverse(Tail(s)), Head(s))

InitBinge ==
    /\ gens = [g \in GenIds |-> NoGen]
    /\ job = [g \in GenIds |-> NoJob]
    /\ stats = {}
    /\ tokens = {}
    /\ nextStatsId = 1
    /\ userEmail = [u \in UserIds |-> TRUE]
    /\ testMode = FALSE
    /\ emailLogs = <<>>
    /\ mailQueue = <<>>
    /\ smtpCalls = 0
    /\ mailReply = "none"
    /\ ServiceIdle
    /\ HttpIdle
    /\ \E T \in SUBSET SessionTimes : \E d \in [T -> {10, 20}] :
         \E c \in {Chronological({[rk |-> 1, t |-> x, dur |-> d[x]] : x \in T})} :
            events \in {c, Reverse(c)}
    /\ firstFed = <<>>
    /\ yearStats = NoStats
    /\ userResult = NoResult
    /\ PageIdle

NextBinge ==
    \/ Invoke
    \/ StoreResult

SpecBinge == InitBinge /\ [][NextBinge]_vars

InitPage ==
    /\ gens = [g \in GenIds |-> NoGen]
    /\ job = [g \in GenIds |-> NoJob]
    /\ stats = {}
    /\ tokens = {}
    /\ nextStatsId = 1
    /\ userEmail = [u \in UserIds |-> TRUE]
    /\ testMode = FALSE
    /\ emailLogs = <<>>
    /\ mailQueue = <<>>
    /\ smtpCalls = 0
    /\ mailReply = "none"
    /\ ServiceIdle
    /\ HttpIdle
    /\ EngineIdle
    /\ wrapped \in WrappedStats
    /\ storedRow = NoRow
    /\ served = NoServed
    /\ shown = NoPage
    /\ browser = PlainBrowser
    /\ locale = NoLocale

NextPage ==
    \/ SaveRow
    \/ ServeWrapped
    \/ RenderPage

SpecPage == InitPage /\ [][NextPage]_vars

InitLocale ==
    /\ gens = [g \in GenIds |-> NoGen]
    /\ job = [g \in GenIds |-> NoJob]
    /\ stats = {}
    /\ tokens = {}
    /\ nextStatsId = 1
    /\ userEmail = [u \in UserIds |-> TRUE]
    /\ testMode = FALSE
    /\ emailLogs = <<>>
    /\ mailQueue = <<>>
    /\ smtpCalls = 0
    /\ mailReply = "none"
    /\ ServiceIdle
    /\ HttpIdle
    /\ EngineIdle
    /\ wrapped = NoWrapped
    /\ storedRow = NoRow
    /\ served = NoServed
    /\ shown = NoPage
    /\ browser \in Browsers
    /\ locale = NoLocale

NextLocale ==
    \/ CallDetermineLocale
    \/ \E l \in Locales : SetLocale(l)
    \/ \E l \in Locales : HandleLocaleChange(l)

SpecLocale == InitLocale /\ [][NextLocale]_vars

NextDuplicate ==
    \/ Invoke
    \/ StoreResult
    \/ \E i \in 1..MaxEvents : \E j \in 0..MaxEvents : FeedTwice(i, j)

SpecDuplicate == InitEngine /\ [][NextDuplicate]_vars

----------------------------------------------------------------------------
(* PATCH /users/:id/language *)

ValidLanguages == {"en", "es", "fr", "de", "sl"}

\* what a request body carries as preferred_language: nothing, the empty
\* string, a code of no language, a code in the wrong case, a valid code
LanguageBodies == {Null, "", "xx", "EN"} \cup ValidLanguages

\* the value passes when it is truthy and one of the valid codes
LanguageAcceptedAnyText(lang) == lang # Null /\ lang # ""

LanguageAccepted(lang) ==
    /\ lang # Null
    /\ lang # ""
    /\ lang \in ValidLanguages

\* UserModel.update(id, { preferred_language })
UpdateLanguage(id, lang) == [userLang EXCEPT ![id] = lang]

LangReply(id, lang, status, dbError) ==
    [status |-> status, id |-> id, lang |-> lang, dbError |-> dbError,
     before |-> userLang]

\* the handler: the value is checked, then the user is looked up, then the
\* row is updated; either database call may throw, which the error handler
\* answers with 500
PatchLanguage(id, lang) ==
    /\ \/ /\ ~LanguageAccepted(lang)
          /\ langReply' = LangReply(id, lang, 400, FALSE)
          /\ UNCHANGED userLang
       \/ /\ LanguageAccepted(lang)
          /\ \E found \in BOOLEAN :
                IF ~found
                THEN /\ langReply' = LangReply(id, lang, 500, TRUE)
                     /\ UNCHANGED userLang
                ELSE IF FindById(id) = 0
                THEN /\ langReply' = LangReply(id, lang, 404, FALSE)
                     /\ UNCHANGED userLang
                ELSE \E updated \in BOOLEAN :
                        IF updated
                        THEN /\ userLang' = UpdateLanguage(id, lang)
                             /\ langReply' = LangReply(id, lang, 200, FALSE)
                        ELSE /\ langReply' = LangReply(id, lang, 500, TRUE)
                             /\ UNCHANGED userLang
    /\ UNCHANGED <<genVars, mailVars, httpVars, engineVars, pageVars>>
    /\ UNCHANGED <<translations, translated, proc>>

InitLanguage ==
    /\ gens = [g \in GenIds |-> NoGen]
    /\ job = [g \in GenIds |-> NoJob]
    /\ stats = {}
    /\ tokens = {}
    /\ nextStatsId = 1
    /\ userEmail = [u \in UserIds |-> TRUE]
    /\ testMode = FALSE
    /\ emailLogs = <<>>
    /\ mailQueue = <<>>
    /\ smtpCalls = 0
    /\ mailReply = "none"
    /\ ServiceIdle
    /\ HttpIdle
    /\ EngineIdle
    /\ PageIdle

NextLanguage ==
    \E id \in RequestIds : \E lang \in LanguageBodies : PatchLanguage(id, lang)

SpecLanguage == InitLanguage /\ [][NextLanguage]_vars

InitTranslate ==
    /\ gens = [g \in GenIds |-> NoGen]
    /\ job = [g \in GenIds |-> NoJob]
    /\ stats = {}
    /\ tokens = {}
    /\ nextStatsId = 1
    /\ userEmail = [u \in UserIds |-> TRUE]
    /\ testMode = FALSE
    /\ emailLogs = <<>>
    /\ mailQueue = <<>>
    /\ smtpCalls = 0
    /\ mailReply = "none"
    /\ userLang = [u \in UserIds |-> "en"]
    /\ langReply = NoLangReply
    /\ translations \in [Locales -> UNION {LoadedTables(l) : l \in Locales}]
    /\ \A l \in Locales : translations[l] \in LoadedTables(l)
    /\ \A l \in Locales \ MissingLocales : translations[l] = LocaleTable(l)
    /\ translated = NotTranslated
    /\ proc = Listening
    /\ HttpIdle
    /\ EngineIdle
    /\ PageIdle

NextTranslate ==
    \E key \in Keys : \E l \in LocaleArgs : \E params \in ParamSets :
        Translate(key, l, params)

SpecTranslate == InitTranslate /\ [][NextTranslate]_vars

----------------------------------------------------------------------------
(* The backend process and gracefulShutdown *)

\* setTimeout(..., 10000)
ShutdownTimeoutMs == 10000
Deadline == ShutdownTimeoutMs \div 1000

\* what starts gracefulShutdown
Signals == {"SIGTERM", "SIGINT", "uncaughtException", "unhandledRejection"}

\* process.exit(code)
Exit(p, code, cause) ==
    [p EXCEPT !.running = FALSE, !.exitCode = code, !.cause = cause]

\* server.close(callback): the server stops listening and the callback waits
\* for the 'close' event
ServerClose(p) ==
    [p EXCEPT !.server = IF p.server = "listening" THEN "closing" ELSE p.server,
              !.callbacks = Append(p.callbacks, "waiting")]

\* a shutdown that arms no timer
SetNoTimeout(p) == p

\* setTimeout(() => process.exit(1), 10000)
SetTimeout(p) == [p EXCEPT !.timers = p.timers + 1]

\* gracefulShutdown(signal)
GracefulShutdown(signal) ==
    /\ proc.running
    /\ Len(proc.callbacks) < MaxSignals
    /\ proc' = [SetTimeout(ServerClose(proc)) EXCEPT !.signal = signal]
    /\ UNCHANGED <<userLang, langReply, translations, translated>>
    /\ UNCHANGED <<genVars, mailVars, httpVars, engineVars, pageVars>>

\* the server's 'close' event, once its last connection has ended: every
\* waiting callback runs up to its first await, the call of closeDatabase
CloseEvent ==
    /\ proc.running
    /\ proc.server \in {"closing", "closed"}
    /\ \E i \in DOMAIN proc.callbacks : proc.callbacks[i] = "waiting"
    /\ proc' = [proc EXCEPT
                  !.server = "closed",
                  !.callbacks = [i \in DOMAIN proc.callbacks |->
                                    IF proc.callbacks[i] = "waiting"
                                    THEN "closeDatabase"
                                    ELSE proc.callbacks[i]]]
    /\ UNCHANGED <<userLang, langReply, translations, translated>>
    /\ UNCHANGED <<genVars, mailVars, httpVars, engineVars, pageVars>>

\* await closeDatabase() settles in callback i: resolved, closeRedis is
\* called; rejected, the catch block exits with 1
DatabaseSettles(i, ok) ==
    /\ proc.running
    /\ i \in DOMAIN proc.callbacks
    /\ proc.callbacks[i] = "closeDatabase"
    /\ proc' = IF ok
               THEN [proc EXCEPT !.db = "closed",
                                 !.callbacks[i] = "closeRedis"]
               ELSE Exit(proc, 1, "threw")
    /\ UNCHANGED <<userLang, langReply, translations, translated>>
    /\ UNCHANGED <<genVars, mailVars, httpVars, engineVars, pageVars>>

\* await closeRedis() settles in callback i: resolved, the process exits
\* with 0; rejected, the catch block exits with 1
RedisSettles(i, ok) ==
    /\ proc.running
    /\ i \in DOMAIN proc.callbacks
    /\ proc.callbacks[i] = "closeRedis"
    /\ proc' = IF ok
               THEN Exit([proc EXCEPT !.redis = "closed",
                                      !.callbacks[i] = "done"], 0, "clean")
               ELSE Exit(proc, 1, "threw")
    /\ UNCHANGED <<userLang, langReply, translations, translated>>
    /\ UNCHANGED <<genVars, mailVars, httpVars, engineVars, pageVars>>

\* a second passes while a timer is armed
Tick ==
    /\ proc.running
    /\ proc.timers > 0
    /\ proc.elapsed < Deadline
    /\ proc' = [proc EXCEPT !.elapsed = proc.elapsed + 1]
    /\ UNCHANGED <<userLang, langReply, translations, translated>>
    /\ UNCHANGED <<genVars, mailVars, httpVars, engineVars, pageVars>>

\* the first timer armed fires
ForcedShutdown ==
    /\ proc.running
    /\ proc.timers > 0
    /\ proc.elapsed = Deadline
    /\ proc' = Exit(proc, 1, "forced")
    /\ UNCHANGED <<userLang, langReply, translations, translated>>
    /\ UNCHANGED <<genVars, mailVars, httpVars, engineVars, pageVars>>

InitShutdown ==
    /\ gens = [g \in GenIds |-> NoGen]
    /\ job = [g \in GenIds |-> NoJob]
    /\ stats = {}
    /\ tokens = {}
    /\ nextStatsId = 1
    /\ userEmail = [u \in UserIds |-> TRUE]
    /\ testMode = FALSE
    /\ emailLogs = <<>>
    /\ mailQueue = <<>>
    /\ smtpCalls = 0
    /\ mailReply = "none"
    /\ ServiceIdle
    /\ HttpIdle
    /\ EngineIdle
    /\ PageIdle

NextShutdown ==
    \/ \E signal \in Signals : GracefulShutdown(signal)
    \/ CloseEvent
    \/ \E i \in 1..MaxSignals : \E ok \in BOOLEAN : DatabaseSettles(i, ok)
    \/ \E i \in 1..MaxSignals : \E ok \in BOOLEAN : RedisSettles(i, ok)
    \/ Tick
    \/ ForcedShutdown

SpecShutdown == InitShutdown /\ [][NextShutdown]_vars

\* the event loop runs: time passes and a due timer fires; nothing obliges
\* the server's connections to end or closeDatabase and closeRedis to settle
SpecShutdownFair ==
    SpecShutdown /\ WF_vars(Tick) /\ WF_vars(ForcedShutdown)

----------------------------------------------------------------------------
(* Claims about the generation orchestrator (Spec) *)

InLoopBody(p) == p \in {"calc", "save", "token", "incOk", "incFail"}

\* C1: when calculating, saving or tokenizing a user's stats throws, the user
\* is recorded as failed (failed++ and incrementProcessed(id, false)) and the
\* loop goes on with the next user or the final update: leaving the catch
\* block never ends the batch.
C1_FailedUserDoesNotEndBatch ==
    [][\A g \in GenIds :
        /\ (job[g].pc \in {"calc", "save", "token"}
              /\ job'[g].pc \notin {"calc", "save", "token", "incOk"})
           => (job'[g].pc = "incFail" /\ job'[g].failed = job[g].failed + 1)
        /\ (job[g].pc = "incFail" /\ job'[g].pc # "incFail")
           => (/\ job'[g].pc \in {"calc", "complete"}
               /\ gens'[g].failed_users = gens[g].failed_users + 1)]_vars

\* C2: a generation is created pending, is processing whenever a user is
\* being processed, moves only pending -> processing -> completed and
\* pending/processing -> failed, and never leaves completed or failed.
C2_StatusLifecycle ==
    [][\A g \in GenIds :
        LET a == gens[g].status
            b == gens'[g].status
        IN /\ a = "none" => b \in {"none", "pending"}
           /\ a = "pending" => b \in {"pending", "processing", "failed"}
           /\ a = "processing" => b \in {"processing", "completed", "failed"}
           /\ a \in {"completed", "failed"} => b = a
           /\ InLoopBody(job'[g].pc) => b = "processing"]_vars

C2_Witness ==
    \E g, h \in GenIds :
        /\ gens[g].status = "completed" /\ gens[g].total_users > 0
        /\ gens[h].status = "failed"

\* C3: the store holds at most one user_wrapped_stats row per (user_id, year),
\* and a generation owns at most one stats row per user, whatever the
\* interleaving of runs and whatever the userIds lists repeat.
C3_OneRowPerUserYear ==
    \A r1, r2 \in stats :
        /\ (r1.user_id = r2.user_id /\ r1.year = r2.year) => r1 = r2
        /\ (r1.user_id = r2.user_id /\ r1.generation_id = r2.generation_id) => r1 = r2

\* two runs for the same year met on the same user: one holds the row, the
\* other one's create was refused
C3_Witness ==
    \E g \in GenIds : \E r \in stats :
        /\ job[g].pc = "incFail" /\ job[g].error = "conflict"
        /\ r.generation_id # g
        /\ r.user_id = job[g].users[job[g].idx]
        /\ r.year = gens[g].year

\* C4: a completed generation has successful_users + failed_users = total_users.
C4_CompletedCountsAddUp ==
    \A g \in GenIds :
        gens[g].status = "completed"
            => gens[g].successful_users + gens[g].failed_users = gens[g].total_users

C6_BoundedWorkers ==
    \A g \in GenIds : \A w \in WorkerCounts : Cardinality(job[g].inflight) <= w

\* the second user of a batch is in flight, the first one settled
C6_Witness ==
    \E g \in GenIds :
        job[g].idx = 2 /\ job[g].inflight = {2} /\ job[g].pc = "calc"

----------------------------------------------------------------------------
(* Claims about the email routes (SpecEmail) *)

\* C7: while TEST_MODE is enabled no admin operation calls the SMTP transport.
C7_TestModeSendsNothing == testMode => smtpCalls = 0

----------------------------------------------------------------------------
(* Claims about the admin router (SpecHttp) *)

\* C8: no handler of the admin router other than login runs for a request
\* that authenticateToken has not accepted.
C8_AuthBeforeHandlers ==
    response.handler \notin {"none", "login"} => AuthAccepts(request.jwt)

\* a protected handler ran for the token the frontend got from POST /login
C8_Witness ==
    /\ response.handler = "userSendEmail"
    /\ request.jwt = "valid"
    /\ clientToken = "valid"

\* C9: POST /login issues a token exactly when ADMIN_PASSWORD is configured
\* and username and password both equal the configured values; it answers
\* 400 when username or password is missing, else 500 when ADMIN_PASSWORD is
\* unset, else 401 on any mismatch, and none of these carries a token. The
\* frontend stores a token only from a successful login.
C9_LoginOutcomes ==
    LET u == request.username
        p == request.password
        configured == adminPass # ""
        expected == IF adminUser = "" THEN "admin" ELSE adminUser
        missing == u = "" \/ p = ""
        match == u = expected /\ p = adminPass
    IN /\ response.handler = "login" =>
            /\ response.token <=> (configured /\ ~missing /\ match)
            /\ response.token <=> response.status = 200
            /\ missing => response.status = 400
            /\ (~missing /\ ~configured) => response.status = 500
            /\ (~missing /\ configured /\ ~match) => response.status = 401
       /\ clientToken = "valid" => adminPass # ""

\* a login that succeeded, and the frontend kept its token
C9_Witness ==
    /\ response.handler = "login"
    /\ response.token
    /\ request.username = "root"
    /\ clientToken = "valid"

\* C20: a row of email_logs whose send attempt is over has left status
\* pending: it is sent when the SMTP send succeeded and failed when it threw,
\* after POST /users/:id/send-email and after a pass of sendEmails alike
\* (every step of SpecEmail runs an attempt to its end).
C20_NoRowLeftPending ==
    \A i \in 1..Len(emailLogs) : emailLogs[i].status \in {"sent", "failed"}

----------------------------------------------------------------------------
(* Claims about the aggregation engine (SpecEngine) *)

\* events that share (ratingKey, startedAt) are copies of one record
TrueDuplicatesOnly(s) ==
    \A i, j \in 1..Len(s) : (s[i].rk = s[j].rk /\ s[i].t = s[j].t) => s[i] = s[j]

C11_EmptyYearIsAllZero ==
    (\A i \in 1..Len(events) : ~Qualifies(events[i])) =>
        /\ yearStats.computed =>
             /\ yearStats.totalPlays = 0
             /\ yearStats.totalMinutes = 0
             /\ yearStats.daysActive = 0
             /\ yearStats.longestStreak = 0
             /\ yearStats.longestBinge = 0
             /\ yearStats.rewatchCount = 0
             /\ yearStats.topMovies = <<>>
             /\ yearStats.funFacts = <<>>
        /\ userResult.counted = "failed" => userResult.error = "db"
        /\ userResult.counted = "successful" => userResult.row = yearStats

\* the empty list went through the engine and the user was counted successful
C11_Witness ==
    /\ events = <<>>
    /\ yearStats.computed
    /\ userResult.counted = "successful"
    /\ userResult.row.totalPlays = 0

WatchDays == {events[i].t \div MinutesPerDay : i \in {k \in 1..Len(events) : Qualifies(events[k])}}

\* C13: the longest streak is the length of the longest run of consecutive
\* watch-days: some run is that long, no run is one day longer (so no two
\* runs on either side of a gap are added up), and Jan 1-3 with Jan 10-15
\* gives 6.
C13_LongestStreakIsLongestRun ==
    yearStats.computed =>
        LET D == WatchDays
            n == yearStats.longestStreak
        IN /\ D = {} => n = 0
           /\ D # {} => n >= 1 /\ \E a \in D : \A d \in a..(a + n - 1) : d \in D
           /\ ~ \E a \in D : \A d \in a..(a + n) : d \in D
           /\ D = (0..2) \cup (9..14) => n = 6

\* the engine ran on watch-days Jan 1-3 and Jan 10-15
C13_Witness ==
    /\ yearStats.computed
    /\ WatchDays = (0..2) \cup (9..14)
    /\ yearStats.daysActive = 9
    /\ yearStats.longestStreak = 6

\* the qualifying events handed to the engine
Watched == {events[i] : i \in {k \in 1..Len(events) : Qualifies(events[k])}}

\* x and y are next to each other by start time
Consecutive(x, y) == x.t < y.t /\ ~ \E w \in Watched : x.t < w.t /\ w.t < y.t

\* no two consecutive events from x to y start more than 4 hours apart
SameSession(x, y) ==
    \A u, v \in Watched :
        (Consecutive(u, v) /\ ((x.t <= u.t /\ v.t <= y.t) \/ (y.t <= u.t /\ v.t <= x.t)))
            => v.t - u.t <= 4 * 60

RECURSIVE WatchedMinutes(_)
WatchedMinutes(S) ==
    IF S = {} THEN 0
    ELSE LET e == CHOOSE x \in S : TRUE IN e.dur + WatchedMinutes(S \ {e})

\* C14: consecutive events are in one session iff the later starts no more
\* than 4 hours after the earlier, and the longest binge is the largest sum
\* of watched minutes of a session.
C14_BingeSplitsAtGap ==
    yearStats.computed =>
        /\ Watched = {} => yearStats.longestBinge = 0
        /\ \A x \in Watched :
             WatchedMinutes({y \in Watched : SameSession(x, y)}) <= yearStats.longestBinge
        /\ Watched # {} =>
             \E x \in Watched :
                WatchedMinutes({y \in Watched : SameSession(x, y)}) = yearStats.longestBinge

\* the engine ran on events exactly 4 hours and then 4 hours 1 minute apart:
\* the first two are one session, the third is not part of it
C14_Witness ==
    /\ yearStats.computed
    /\ {e.t : e \in Watched} = {0, 240, 481}
    /\ \A e \in Watched : e.dur = 10
    /\ yearStats.longestBinge = 20

\* C15: in the top list every group stands before the groups with fewer
\* plays, among equal plays before those with fewer minutes, and among equal
\* plays and minutes before those observed later, whatever the order of the
\* input; no key is listed twice and the list is no longer than the cap.
C15_TopListOrder ==
    yearStats.computed =>
        LET top == yearStats.topMovies
        IN /\ Len(top) <= TopCap
           /\ \A i, j \in 1..Len(top) : i < j =>
                /\ top[i].key # top[j].key
                /\ top[i].plays >= top[j].plays
                /\ top[i].plays = top[j].plays => top[i].minutes >= top[j].minutes
                /\ (top[i].plays = top[j].plays /\ top[i].minutes = top[j].minutes)
                     => top[i].earliest <= top[j].earliest

\* two groups equal in plays and minutes: the one observed earlier is first
\* although the list handed in had the other one first
C15_Witness ==
    /\ yearStats.computed
    /\ Len(yearStats.topMovies) = 2
    /\ yearStats.topMovies[1].plays = yearStats.topMovies[2].plays
    /\ yearStats.topMovies[1].minutes = yearStats.topMovies[2].minutes
    /\ yearStats.topMovies[1].earliest < yearStats.topMovies[2].earliest
    /\ yearStats.topMovies[1].key > yearStats.topMovies[2].key
    /\ firstFed # <<>>
    /\ firstFed[1].rk = yearStats.topMovies[2].key
    /\ Qualifies(firstFed[1])

----------------------------------------------------------------------------
(* Claims about the stats row and the wrapped page (SpecPage) *)

C17_PercentagesInRange ==
    shown.rendered =>
        /\ \A i \in 1..Len(shown.devices) : shown.devices[i] \in 0..100
        /\ \A i \in 1..Len(shown.facts) :
             shown.facts[i].id \in {"originalQuality", "watchedPercentage"}
                 => shown.facts[i].n \in 0..100

\* the place of a page rule in the order the page evaluates them, 0 for a
\* fact of the engine
RuleRank(id) ==
    CASE id = "engine" -> 0
      [] id = "dayOfWeek" -> 1
      [] id = "crushedEpisodes" -> 2
      [] id = "originalQuality" -> 3
      [] id = "preference" -> 4
      [] id = "watchedPercentage" -> 5
      [] id = "favoriteDevice" -> 6

\* the page rule fires on the stats
RuleFires(id, st) ==
    CASE id = "dayOfWeek" -> st.mostActiveDayOfWeek # ""
      [] id = "crushedEpisodes" -> st.topShowEpisodes > 20
      [] id = "originalQuality" -> st.qualityStats.directPlay > st.qualityStats.transcode
      [] id = "preference" -> TRUE
      [] id = "watchedPercentage" -> st.daysActive < 200
      [] id = "favoriteDevice" -> st.topDevices # <<>>

PageRules ==
    {"dayOfWeek", "crushedEpisodes", "originalQuality", "preference",
     "watchedPercentage", "favoriteDevice"}

\* C18: the page shows at most 6 facts: the engine's facts first and in
\* their order, then the facts of the page rules in rule order, each at most
\* once; a rule that does not fire has no fact, and a rule that fires is
\* left out only when 6 facts stand before it.
C18_AtMostSixFactsInOrder ==
    shown.rendered =>
        LET f == shown.facts
            st == served.stats
        IN /\ Len(f) <= 6
           /\ \A i \in 1..Len(f) :
                /\ i <= Len(st.funFacts) => f[i] = st.funFacts[i]
                /\ i > Len(st.funFacts) => f[i].id \in PageRules /\ RuleFires(f[i].id, st)
           /\ \A i, j \in 1..Len(f) :
                (i < j /\ i > Len(st.funFacts)) => RuleRank(f[i].id) < RuleRank(f[j].id)
           /\ \A r \in PageRules :
                (RuleFires(r, st) /\ ~ \E i \in 1..Len(f) : f[i].id = r) => Len(f) = 6
           /\ \A r, q \in PageRules :
                (RuleFires(r, st) /\ RuleRank(r) < RuleRank(q)
                    /\ \E i \in 1..Len(f) : f[i].id = q) => \E i \in 1..Len(f) : f[i].id = r

\* four facts of the engine and six firing page rules: the first two page
\* facts are shown after the engine's, the other four are cut
C18_Witness ==
    /\ shown.rendered
    /\ Len(served.stats.funFacts) = 4
    /\ \A r \in PageRules : RuleFires(r, served.stats)
    /\ Len(shown.facts) = 6
    /\ shown.facts[4].id = "engine"
    /\ shown.facts[5].id = "dayOfWeek"
    /\ shown.facts[6].id = "crushedEpisodes"

----------------------------------------------------------------------------
(* Claims about determineLocale (SpecLocale) *)

\* C19: the locale returned is a supported one; it is the URL 'lang' value
\* when that is supported, else the stored preferredLanguage when that can
\* be read and is supported, else the browser language when that can be read
\* and is supported, else the default.
C19_LocalePriority ==
    locale.called =>
        LET b == locale.saw
            urlOk == b.lang \in Locales
            storedOk == b.hasWindow /\ b.preferredLanguage \in Locales
            browserOk == b.hasWindow /\ b.language[1] \in Locales
        IN /\ locale.value \in Locales
           /\ urlOk => locale.value = b.lang
           /\ (~urlOk /\ storedOk) => locale.value = b.preferredLanguage
           /\ (~urlOk /\ ~storedOk /\ browserOk) => locale.value = b.language[1]
           /\ (~urlOk /\ ~storedOk /\ ~browserOk) => locale.value = DefaultLocale

\* an unsupported 'lang' value fell through to a supported stored preference
\* although the browser language is supported too
C19_Witness ==
    /\ locale.called
    /\ locale.saw.lang = "xx"
    /\ locale.saw.preferredLanguage = "fr"
    /\ locale.saw.language = <<"sl", "SI">>
    /\ locale.value = "fr"

----------------------------------------------------------------------------
(* Claims about PATCH /users/:id/language (SpecLanguage) *)

\* C21: a missing or invalid preferred_language is answered 400 whoever the
\* id names; a valid value for an id of no user is answered 404 when the
\* lookup answers; the row is changed, to the value sent and for that user
\* only, exactly on 200, and every other answer leaves all rows as they were.
C21_LanguageErrorsChangeNothing ==
    langReply.status # 0 =>
        LET valid == langReply.lang \in ValidLanguages
            known == langReply.id \in UserIds
        IN /\ ~valid => langReply.status = 400
           /\ (valid /\ ~known /\ ~langReply.dbError) => langReply.status = 404
           /\ (valid /\ known /\ ~langReply.dbError) => langReply.status = 200
           /\ langReply.status = 200 =>
                /\ valid /\ known
                /\ userLang = [langReply.before EXCEPT
                                  ![langReply.id] = langReply.lang]
           /\ langReply.status # 200 => userLang = langReply.before

\* after user 1 was moved to 'sl', a wrongly cased code sent for an id of no
\* user is answered 400, not 404, and user 1 keeps 'sl'
C21_Witness ==
    /\ langReply.status = 400
    /\ langReply.id \notin UserIds
    /\ langReply.lang = "EN"
    /\ userLang[1] = "sl"

----------------------------------------------------------------------------
(* Claims about I18nService.translate (SpecTranslate) *)

\* the table the claim names: the requested locale's when the map holds one,
\* else the default locale's, else none
Loaded(l) == l \in Locales /\ translations[l].kind = "object"

TableFor(l) ==
    IF Loaded(l) THEN translations[l]
    ELSE IF Loaded(DefaultLocale) THEN translations[DefaultLocale]
    ELSE Undefined

\* the value at a path of own properties, Undefined when the path is missing
RECURSIVE ValueAt(_, _)
ValueAt(value, path) ==
    IF path = <<>> THEN value
    ELSE IF value.kind = "object" /\ Head(path) \in DOMAIN value.fields
         THEN ValueAt(value.fields[Head(path)], Tail(path))
         ELSE Undefined

\* a parameter of that name was passed
Passed(params, name) ==
    /\ params.given
    /\ name \in DOMAIN params.own
    /\ params.own[name] # ParamUndefined

\* C22: translate returns a string: the key itself when neither the requested
\* nor the default locale has a table, when the key's path is missing from the
\* table used, or when the value there is not a string; else the table's text
\* with every {placeholder} for which no parameter was passed left as it is
\* and every other one replaced by its parameter.
C22_TranslateTotal ==
    translated.called =>
        LET l == IF translated.locale = Null THEN DefaultLocale
                 ELSE translated.locale
            value == ValueAt(TableFor(l), Split(translated.key))
            result == translated.result
        IN /\ result.kind = "string"
           /\ value.kind # "string" => result = KeyItself(translated.key)
           /\ value.kind = "string" =>
                /\ Len(result.text) = Len(value.text)
                /\ \A i \in DOMAIN value.text :
                      IF value.text[i].placeholder
                         /\ Passed(translated.params, value.text[i].s)
                      THEN result.text[i] =
                              Text(StringOf(translated.params.own[value.text[i].s]))
                      ELSE result.text[i] = value.text[i]

----------------------------------------------------------------------------
(* Claims about gracefulShutdown (SpecShutdownFair) *)

Called(i) == proc.callbacks[i] \in {"closeDatabase", "closeRedis", "done"}

\* C23: closeDatabase and closeRedis are called, and the connections closed,
\* only once the HTTP server has closed; the process exits with 0 exactly
\* when a callback saw both close, with 1 when a close threw or the timer
\* armed by the shutdown fired, which it does only at its deadline; and once
\* a shutdown has been asked for the process eventually exits.
C23_ShutdownExits ==
    /\ [](/\ \A i \in DOMAIN proc.callbacks :
                Called(i) => proc.server = "closed"
          /\ (proc.db = "closed" \/ proc.redis = "closed") =>
                proc.server = "closed"
          /\ proc.redis = "closed" => proc.db = "closed"
          /\ ~proc.running =>
                /\ proc.signal # "none"
                /\ proc.exitCode \in {0, 1}
                /\ proc.exitCode = 0 <=> proc.cause = "clean"
                /\ proc.cause = "clean" =>
                      /\ proc.db = "closed" /\ proc.redis = "closed"
                      /\ \E i \in DOMAIN proc.callbacks :
                            proc.callbacks[i] = "done"
                /\ proc.cause = "forced" => proc.elapsed = Deadline
          /\ proc.elapsed <= Deadline)
    /\ (proc.signal # "none") ~> ~proc.running

\* the server closed and closeDatabase was called, but it never settled: the
\* timer ended the process with 1 at its deadline
C23_Witness ==
    /\ ~proc.running
    /\ proc.cause = "forced"
    /\ proc.exitCode = 1
    /\ proc.server = "closed"
    /\ proc.db = "open"
    /\ \E i \in DOMAIN proc.callbacks : proc.callbacks[i] = "closeDatabase"

----------------------------------------------------------------------------
(* Claims about the end of a generation (Spec) *)

\* C24: once generateWrappedStats has settled, resolved or rejected, its
\* generation has status completed or failed: no failure inside it, that of
\* the status update included, leaves the generation pending or processing
\* with nothing left to run on it.
C24_SettledGenerationIsTerminal ==
    \A g \in GenIds :
        job[g].pc \in {"done", "rejected"}
            => gens[g].status \in {"completed", "failed"}

====
